---- MODULE Spec2Model ----
(***************************************************************************)
(* Model of IsizeVec<T> (src/lib.rs): a vector of items with a parallel    *)
(* vector of isize ordering keys.                                          *)
(*                                                                         *)
(* Indices are 0-based as in the source; At(s, i) reads s[i].              *)
(* The items are the numbers 1, 2, 3, ... in the order in which they are   *)
(* handed to insert or push (as in the tests, which insert 0, 1, 2, ...),  *)
(* so that every item can be told apart from every other.                  *)
(* hist is a history variable: hist[n] is the key with which item n        *)
(* entered the collection (isize::MAX for push).                           *)
(* call records the last public call, its arguments and its return value;  *)
(* old_items / old_order are the two vectors as they were before it.  The  *)
(* caller looks at the outcome of a call and then lets go of it (Forget)   *)
(* before it makes the next call; Forget touches neither vector.           *)
(***************************************************************************)
EXTENDS Integers, Sequences, FiniteSets

VARIABLES items, order, hist, call, old_items, old_order

vars == <<items, order, hist, call, old_items, old_order>>

\* ---------------------------------------------------------------- bounds
\* Total number of items that ever enter the collection in one behaviour.
MaxOps == 3

\* isize::MAX on a 32-bit target (isize is pointer-width).
ISIZE_MAX == 2147483647

\* Keys the caller passes to insert / first_right_of: two negative keys,
\* zero and the maximum key.
Keys == {-2, -1, 0, ISIZE_MAX}

\* The items that can ever be in the collection.
Items == 1 .. MaxOps

\* The predicates handed to retain, each given as the set of items for
\* which it is true.
Predicates == SUBSET Items

\* ------------------------------------------------------- sequence helpers
At(s, i) == s[i + 1]

Indices(s) == 0 .. (Len(s) - 1)

\* Vec::insert(index, element)
VecInsert(s, i, x) == SubSeq(s, 1, i) \o <<x>> \o SubSeq(s, i + 1, Len(s))

\* Vec::remove(index)
VecRemove(s, i) == SubSeq(s, 1, i) \o SubSeq(s, i + 2, Len(s))

\* Vec::push(element)
VecPush(s, x) == Append(s, x)

\* Vec::drain(s..e), dropped or consumed: what stays in the vector
VecDrain(s, from, to) == SubSeq(s, 1, from) \o SubSeq(s, to + 1, Len(s))

SetMin(S) == CHOOSE m \in S : \A n \in S : m <= n

SetMax(S) == CHOOSE m \in S : \A n \in S : m >= n

Some(i) == [some |-> TRUE, idx |-> i]

None == [some |-> FALSE, idx |-> 0]

\* ------------------------------------------------------------ the search
\* slice::binary_search on the key vector.  With several matches any one of
\* them may be returned (Ok); with none, the insertion point that keeps the
\* vector sorted (Err).
binary_search(ord, relative) ==
    LET hits == {i \in Indices(ord) : At(ord, i) = relative}
    IN  IF hits # {}
        THEN {[ok |-> TRUE, idx |-> i] : i \in hits}
        ELSE {[ok |-> FALSE,
               idx |-> Cardinality({i \in Indices(ord) : At(ord, i) < relative})]}

\* Variant: the scan stops at the first key equal to relative (== for !=).
find_forward_equal(ord, exact, relative) ==
    LET same == {j \in exact .. (Len(ord) - 1) : At(ord, j) = relative}
    IN  IF same = {} THEN None ELSE Some(SetMin(same) - exact)

\* self.order[exact..].iter().enumerate().find(|(_, &x)| x != relative)
find_forward(ord, exact, relative) ==
    LET diff == {j \in exact .. (Len(ord) - 1) : At(ord, j) # relative}
    IN  IF diff = {} THEN None ELSE Some(SetMin(diff) - exact)

\* self.order[..exact].iter().rev().enumerate().find(|(_, &x)| x != relative)
find_backward(ord, exact, relative) ==
    LET diff == {j \in 0 .. (exact - 1) : At(ord, j) # relative}
    IN  IF diff = {} THEN None ELSE Some((exact - 1) - SetMax(diff))

\* ----------------------------------------------------------------- insert
\* Every branch yields the new item vector, the new key vector and the
\* returned index.
Outcome(its, ord, r) == [items |-> its, order |-> ord, ret |-> r]

\* Variant: zero is taken for a signed key.
is_unsigned_strict(relative) == relative > 0

\* the test `relative >= 0` of the Ok arm
is_unsigned(relative) == relative >= 0

\* Variant: the new pair goes in front of the hit, the run is not scanned.
insert_found_unsigned_at_hit(its, ord, exact, relative, item) ==
    Outcome(VecInsert(its, exact, item), VecInsert(ord, exact, relative), exact)

\* Variant: the append arm returns the length, not the last index.
insert_found_unsigned_len(its, ord, exact, relative, item) ==
    LET found == find_forward(ord, exact, relative)
    IN  IF found.some
        THEN Outcome(VecInsert(its, exact + found.idx, item),
                     VecInsert(ord, exact + found.idx, relative),
                     exact + found.idx)
        ELSE Outcome(VecPush(its, item),
                     VecPush(ord, relative),
                     Len(VecPush(its, item)))

\* Ok(exact), relative >= 0
insert_found_unsigned(its, ord, exact, relative, item) ==
    LET found == find_forward(ord, exact, relative)
    IN  IF found.some
        THEN Outcome(VecInsert(its, exact + found.idx, item),
                     VecInsert(ord, exact + found.idx, relative),
                     exact + found.idx)
        ELSE Outcome(VecPush(its, item),
                     VecPush(ord, relative),
                     Len(VecPush(its, item)) - 1)

\* Variant: the new pair goes in front of the hit, the run to its left is
\* not scanned.
insert_found_signed_at_hit(its, ord, exact, relative, item) ==
    Outcome(VecInsert(its, exact, item), VecInsert(ord, exact, relative), exact)

\* Ok(exact), relative < 0
insert_found_signed(its, ord, exact, relative, item) ==
    LET found == find_backward(ord, exact, relative)
    IN  IF found.some
        THEN Outcome(VecInsert(its, exact - found.idx, item),
                     VecInsert(ord, exact - found.idx, relative),
                     exact - found.idx)
        ELSE Outcome(VecInsert(its, 0, item),
                     VecInsert(ord, 0, relative),
                     0)

\* Variant: the pair is appended instead of inserted at the insertion point.
insert_not_found_append(its, ord, p, relative, item) ==
    Outcome(VecPush(its, item), VecPush(ord, relative), Len(its))

\* Variant: the key goes to the insertion point, the item to the end.
insert_not_found_item_last(its, ord, p, relative, item) ==
    Outcome(VecPush(its, item), VecInsert(ord, p, relative), p)

\* Err(order)
insert_not_found(its, ord, p, relative, item) ==
    Outcome(VecInsert(its, p, item), VecInsert(ord, p, relative), p)

\* insert(relative, item), given the result bs of the binary search
insert(its, ord, relative, item, bs) ==
    IF bs.ok
    THEN IF is_unsigned(relative)
         THEN insert_found_unsigned(its, ord, bs.idx, relative, item)
         ELSE insert_found_signed(its, ord, bs.idx, relative, item)
    ELSE insert_not_found(its, ord, bs.idx, relative, item)

\* ------------------------------------------------------------------- push
\* Variant: the pushed item gets the key 0.
push_key_zero(its, ord, item) ==
    Outcome(VecPush(its, item), VecPush(ord, 0),
            Len(VecPush(its, item)) - 1)

push(its, ord, item) ==
    Outcome(VecPush(its, item), VecPush(ord, ISIZE_MAX),
            Len(VecPush(its, item)) - 1)

\* -------------------------------------------------------------------- pop
pop(its, ord) ==
    IF Len(its) # 0
    THEN [items |-> SubSeq(its, 1, Len(its) - 1),
          order |-> SubSeq(ord, 1, Len(ord) - 1),
          ret |-> [some |-> TRUE, item |-> At(its, Len(its) - 1),
                   key |-> At(ord, Len(ord) - 1)]]
    ELSE [items |-> its, order |-> ord, ret |-> [some |-> FALSE]]

\* ----------------------------------------------------------------- remove
\* Variant: the key is popped off the end instead of removed at index.
remove_key_last(its, ord, index) ==
    IF index >= Len(its) \/ Len(ord) = 0
    THEN [items |-> its, order |-> ord, panicked |-> TRUE]
    ELSE [items |-> VecRemove(its, index),
          order |-> SubSeq(ord, 1, Len(ord) - 1),
          panicked |-> FALSE,
          ret |-> [item |-> At(its, index), key |-> At(ord, Len(ord) - 1)]]

\* Variant: an index beyond the end is taken for the last index.
remove_clamped(its, ord, index) ==
    IF Len(its) = 0 \/ Len(ord) = 0
    THEN [items |-> its, order |-> ord, panicked |-> TRUE]
    ELSE LET i == IF index >= Len(its) THEN Len(its) - 1 ELSE index
             k == IF i >= Len(ord) THEN Len(ord) - 1 ELSE i
         IN  [items |-> VecRemove(its, i),
              order |-> VecRemove(ord, k),
              panicked |-> FALSE,
              ret |-> [item |-> At(its, i), key |-> At(ord, k)]]

\* (self.items.remove(index), self.order.remove(index)): the two removals
\* run from left to right, and Vec::remove panics, before it changes its
\* vector, when index is not below the length of that vector.
remove(its, ord, index) ==
    IF index >= Len(its)
    THEN [items |-> its, order |-> ord, panicked |-> TRUE]
    ELSE IF index >= Len(ord)
         THEN [items |-> VecRemove(its, index), order |-> ord,
               panicked |-> TRUE]
         ELSE [items |-> VecRemove(its, index),
               order |-> VecRemove(ord, index),
               panicked |-> FALSE,
               ret |-> [item |-> At(its, index), key |-> At(ord, index)]]

\* ------------------------------------------------------------------ drain
\* Variant: the keys of the range are left in place.
drain_keys_left(its, ord, from, to) ==
    [items |-> VecDrain(its, from, to),
     order |-> ord,
     ret |-> SubSeq(its, from + 1, to)]

\* The key range is drained and dropped at once; the Drain over the items
\* removes the range when the caller drops it, whatever was consumed.  ret
\* is what the Drain yields when it is consumed to the end.
drain(its, ord, from, to) ==
    [items |-> VecDrain(its, from, to),
     order |-> VecDrain(ord, from, to),
     ret |-> SubSeq(its, from + 1, to)]

\* ---------------------------------------------------------------- extract
\* Variant: the keys are not cleared.
extract_keys_left(its, ord) ==
    [items |-> <<>>, order |-> ord, ret |-> its]

\* Variant: a copy of the items is returned and the items are left in place.
extract_items_left(its, ord) ==
    [items |-> its, order |-> <<>>, ret |-> its]

extract(its, ord) ==
    [items |-> <<>>, order |-> <<>>, ret |-> its]

\* --------------------------------------------------------- first_right_of
\* Variant: the run to the right of the hit is not scanned.
first_right_of_next(ord, relative, bs) ==
    IF bs.ok THEN bs.idx + 1 ELSE bs.idx

first_right_of(ord, relative, bs) ==
    IF bs.ok
    THEN LET found == find_forward(ord, bs.idx, relative)
         IN  IF found.some THEN bs.idx + found.idx ELSE Len(ord)
    ELSE bs.idx

\* Variant: first_right_of(0).
first_positive_after_zero(ord) ==
    {first_right_of(ord, 0, bs) : bs \in binary_search(ord, 0)}

\* first_positive(): every index first_right_of(-1) can return
first_positive(ord) ==
    {first_right_of(ord, -1, bs) : bs \in binary_search(ord, -1)}

\* ------------------------------------------------------------------- swap
\* Variant: the keys are exchanged along with the items.
swap_with_keys(its, ord, a, b) ==
    [items |-> [i \in 1 .. Len(its) |->
                  IF i = a + 1 THEN At(its, b)
                  ELSE IF i = b + 1 THEN At(its, a)
                  ELSE its[i]],
     order |-> [i \in 1 .. Len(ord) |->
                  IF i = a + 1 THEN At(ord, b)
                  ELSE IF i = b + 1 THEN At(ord, a)
                  ELSE ord[i]]]

\* a, b < len; only the items are exchanged.
swap(its, ord, a, b) ==
    [items |-> [i \in 1 .. Len(its) |->
                  IF i = a + 1 THEN At(its, b)
                  ELSE IF i = b + 1 THEN At(its, a)
                  ELSE its[i]],
     order |-> ord]

\* ----------------------------------------------------------------- retain
\* The closure handed to Vec::retain, called once per item from left to
\* right: idx counts the items visited so far, removed the items dropped so
\* far.  keep is the set of items for which the predicate f is true.
retain_key_index(idx, removed) == idx - 1 - removed

RECURSIVE retain_loop(_, _, _, _, _, _)
retain_loop(its, keep, idx, removed, ord, kept) ==
    IF idx = Len(its)
    THEN [items |-> kept, order |-> ord]
    ELSE IF At(its, idx) \in keep
         THEN retain_loop(its, keep, idx + 1, removed, ord,
                          Append(kept, At(its, idx)))
         ELSE retain_loop(its, keep, idx + 1, removed + 1,
                          VecRemove(ord, retain_key_index(idx + 1, removed)),
                          kept)

\* Variant: the items are filtered and the keys cut to the new length.
retain_truncate(its, ord, keep) ==
    LET Test(x) == x \in keep
        kept == SelectSeq(its, Test)
    IN  [items |-> kept, order |-> SubSeq(ord, 1, Len(kept))]

retain(its, ord, keep) == retain_loop(its, keep, 0, 0, ord, <<>>)

\* ------------------------------------------------------------------ state
NewItem == Len(hist) + 1

\* A call is made once the outcome of the previous call has been let go of.
Ready == call.name \in {"new", "idle"}

Remember == /\ old_items' = items
            /\ old_order' = order

Init ==
    /\ items = <<>>
    /\ order = <<>>
    /\ hist = <<>>
    /\ call = [name |-> "new"]
    /\ old_items = <<>>
    /\ old_order = <<>>

Insert ==
    /\ Ready
    /\ Len(hist) < MaxOps
    /\ \E relative \in Keys :
         \E bs \in binary_search(order, relative) :
            LET out == insert(items, order, relative, NewItem, bs)
            IN  /\ items' = out.items
                /\ order' = out.order
                /\ hist' = Append(hist, relative)
                /\ call' = [name |-> "insert", key |-> relative,
                            item |-> NewItem, exact |-> bs, ret |-> out.ret]
    /\ Remember

Push ==
    /\ Ready
    /\ Len(hist) < MaxOps
    /\ LET out == push(items, order, NewItem)
       IN  /\ items' = out.items
           /\ order' = out.order
           /\ hist' = Append(hist, ISIZE_MAX)
           /\ call' = [name |-> "push", item |-> NewItem, ret |-> out.ret]
    /\ Remember

Pop ==
    /\ Ready
    /\ LET out == pop(items, order)
       IN  /\ items' = out.items
           /\ order' = out.order
           /\ call' = [name |-> "pop", ret |-> out.ret]
    /\ Remember
    /\ UNCHANGED hist

Remove ==
    /\ Ready
    /\ \E index \in 0 .. (Len(items) + 1) :
         LET out == remove(items, order, index)
         IN  /\ items' = out.items
             /\ order' = out.order
             /\ call' = IF out.panicked
                        THEN [name |-> "remove", index |-> index,
                              panicked |-> TRUE]
                        ELSE [name |-> "remove", index |-> index,
                              panicked |-> FALSE, ret |-> out.ret]
    /\ Remember
    /\ UNCHANGED hist

Drain ==
    /\ Ready
    /\ \E from \in 0 .. Len(items) :
         \E to \in from .. Len(items) :
            \E taken \in 0 .. (to - from) :
               \* the caller takes `taken` values, then drops the Drain
               LET out == drain(items, order, from, to)
               IN  /\ items' = out.items
                   /\ order' = out.order
                   /\ call' = [name |-> "drain", from |-> from, to |-> to,
                               ret |-> out.ret,
                               consumed |-> SubSeq(out.ret, 1, taken)]
    /\ Remember
    /\ UNCHANGED hist

Extract ==
    /\ Ready
    /\ LET out == extract(items, order)
       IN  /\ items' = out.items
           /\ order' = out.order
           /\ call' = [name |-> "extract", ret |-> out.ret]
    /\ Remember
    /\ UNCHANGED hist

Retain ==
    /\ Ready
    /\ \E keep \in Predicates :
         LET out == retain(items, order, keep)
         IN  /\ items' = out.items
             /\ order' = out.order
             /\ call' = [name |-> "retain", keep |-> keep]
    /\ Remember
    /\ UNCHANGED hist

Swap ==
    /\ Ready
    /\ \E a \in Indices(items), b \in Indices(items) :
         LET out == swap(items, order, a, b)
         IN  /\ items' = out.items
             /\ order' = out.order
             /\ call' = [name |-> "swap", a |-> a, b |-> b]
    /\ Remember
    /\ UNCHANGED hist

FirstRightOf ==
    /\ Ready
    /\ \E relative \in Keys :
         \E bs \in binary_search(order, relative) :
            call' = [name |-> "first_right_of", key |-> relative,
                     exact |-> bs,
                     ret |-> first_right_of(order, relative, bs)]
    /\ Remember
    /\ UNCHANGED <<items, order, hist>>

FirstPositive ==
    /\ Ready
    /\ \E r \in first_positive(order) :
         call' = [name |-> "first_positive", ret |-> r]
    /\ Remember
    /\ UNCHANGED <<items, order, hist>>

\* pop() right after a push has returned.  old_items / old_order stay what
\* they were before that push.
PopPushed ==
    /\ call.name = "push"
    /\ LET out == pop(items, order)
       IN  /\ items' = out.items
           /\ order' = out.order
           /\ call' = [name |-> "pop_pushed", pushed |-> call.item,
                       ret |-> out.ret]
    /\ UNCHANGED <<hist, old_items, old_order>>

\* insert(key, item) with the pair that the remove just made has returned.
\* old_items / old_order stay what they were before that remove.
Reinsert ==
    /\ call.name = "remove"
    /\ ~call.panicked
    /\ \E bs \in binary_search(order, call.ret.key) :
         LET out == insert(items, order, call.ret.key, call.ret.item, bs)
         IN  /\ items' = out.items
             /\ order' = out.order
             /\ hist' = [hist EXCEPT ![call.ret.item] = call.ret.key]
             /\ call' = [name |-> "reinsert", key |-> call.ret.key,
                         item |-> call.ret.item, index |-> call.index,
                         exact |-> bs, ret |-> out.ret]
    /\ UNCHANGED <<old_items, old_order>>

\* The caller lets go of the outcome of the last call.
Forget ==
    /\ ~Ready
    /\ call' = [name |-> "idle"]
    /\ old_items' = <<>>
    /\ old_order' = <<>>
    /\ UNCHANGED <<items, order, hist>>

\* Collections built by insert alone, with the two queries.
NextInsert == Insert \/ FirstRightOf \/ FirstPositive \/ Forget

SpecInsert == Init /\ [][NextInsert]_vars

\* Collections built by insert and push, with the two queries.
NextInsertPush == Insert \/ Push \/ FirstRightOf \/ FirstPositive \/ Forget

SpecInsertPush == Init /\ [][NextInsertPush]_vars

\* Every operation but swap.
NextNoSwap ==
    \/ Insert
    \/ Push
    \/ Pop
    \/ Remove
    \/ Drain
    \/ Extract
    \/ Retain
    \/ FirstRightOf
    \/ FirstPositive
    \/ Forget

SpecNoSwap == Init /\ [][NextNoSwap]_vars

\* Every operation but swap, and the two round trips: a pop right after a
\* push, and an insert of the pair that a remove returned.
NextRoundTrip == NextNoSwap \/ PopPushed \/ Reinsert

SpecRoundTrip == Init /\ [][NextRoundTrip]_vars

\* Every operation.
Next == NextNoSwap \/ Swap

Spec == Init /\ [][Next]_vars

\* =================================================================
\* Properties
\* =================================================================
Sorted(ord) == \A i \in 1 .. (Len(ord) - 1) : ord[i] <= ord[i + 1]

\* The (item, key) pairs of two parallel vectors, index by index.
Pairs(its, ord) == [i \in 1 .. Len(its) |-> <<its[i], ord[i]>>]

\* C1: in every state reached from new() by insert, push, pop, remove,
\* retain, drain and extract (no swap) the keys are non-decreasing:
\* keys[i] <= keys[i+1] for every valid i.
C1_KeysNonDecreasing == Sorted(order)

\* An insert has just landed strictly between a smaller and a larger key.
C1_Witness ==
    /\ call.name = "insert"
    /\ Len(order) = 3
    /\ call.ret = 1
    /\ order[1] < order[2]
    /\ order[2] < order[3]

\* C2: after every completed public operation (new, push, pop, insert,
\* remove, swap, retain, drain with a valid range, extract), in any order,
\* the item vector and the key vector have the same length.
C2_SameLength == Len(items) = Len(order)

\* A retain has just dropped two of three pairs of a collection.
C2_Witness ==
    /\ call.name = "retain"
    /\ Len(old_items) = 3
    /\ Len(items) = 1
    /\ Len(order) = 1

\* C3: without swap, every item still present sits at the index of the key
\* it was given when it entered (the insert key, or isize::MAX for push).
C3_PairedWithGivenKey ==
    \A i \in DOMAIN items : i \in DOMAIN order /\ order[i] = hist[items[i]]

\* A remove has just taken the first pair away from in front of two pairs
\* with different keys, one of them pushed.
C3_Witness ==
    /\ call.name = "remove"
    /\ ~call.panicked
    /\ call.index = 0
    /\ Len(items) = 2
    /\ order[1] < order[2]
    /\ call.ret.key < order[1]
    /\ hist[items[2]] = ISIZE_MAX

\* C4: tie-break FIFO.  In a collection built by insert calls, insert(k, v)
\* with k >= 0 puts v immediately after every entry that already has key k;
\* hence items inserted with the same non-negative key stand in the order
\* in which they were inserted.
C4_AppendToRun ==
    /\ (call.name = "insert" /\ call.key >= 0) =>
          LET run == {i \in Indices(old_order) : At(old_order, i) = call.key}
          IN  /\ call.ret \in Indices(items)
              /\ At(items, call.ret) = call.item
              /\ run # {} => call.ret = SetMax(run) + 1
    /\ \A a \in Indices(items), b \in Indices(items) :
          (a < b /\ hist[At(items, a)] >= 0
                 /\ hist[At(items, a)] = hist[At(items, b)])
             => At(items, a) < At(items, b)

\* insert(0, v) has just put v behind an entry of key 0 and in front of an
\* entry with a larger key.
C4_Witness ==
    /\ call.name = "insert"
    /\ call.key = 0
    /\ call.exact.ok
    /\ call.ret = 1
    /\ order = <<0, 0, ISIZE_MAX>>
    /\ items[2] = call.item

\* C5: tie-break LIFO.  In a collection built by insert calls, insert(k, v)
\* with k < 0 puts v immediately before every entry that already has key k;
\* hence items inserted with the same negative key stand in the reverse of
\* the order in which they were inserted.
C5_PrependToRun ==
    /\ (call.name = "insert" /\ call.key < 0) =>
          LET run == {i \in Indices(old_order) : At(old_order, i) = call.key}
          IN  /\ call.ret \in Indices(items)
              /\ At(items, call.ret) = call.item
              /\ run # {} => call.ret = SetMin(run)
    /\ \A a \in Indices(items), b \in Indices(items) :
          (a < b /\ hist[At(items, a)] < 0
                 /\ hist[At(items, a)] = hist[At(items, b)])
             => At(items, a) > At(items, b)

\* insert(-1, v) has just put v in front of a run of two entries of key -1,
\* whichever of the two the binary search hit.
C5_Witness ==
    /\ call.name = "insert"
    /\ call.key = -1
    /\ call.exact.ok
    /\ call.exact.idx = 1
    /\ call.ret = 0
    /\ order = <<-1, -1, -1>>
    /\ items = <<3, 2, 1>>

\* ---- the reference ordering of tests::insertion_behaves_as_ordering
\* orders: the (item, key) pairs in the order of the insert calls
orders == [n \in 1 .. Len(hist) |-> <<n, hist[n]>>]

Reverse(s) == [i \in 1 .. Len(s) |-> s[Len(s) + 1 - i]]

\* one step of a stable sort by key: x goes behind every pair whose key is
\* not larger than its own
RECURSIVE StableInsert(_, _)
StableInsert(sorted, x) ==
    IF sorted = <<>> THEN <<x>>
    ELSE IF Head(sorted)[2] <= x[2]
         THEN <<Head(sorted)>> \o StableInsert(Tail(sorted), x)
         ELSE <<x>> \o sorted

\* sort_by(|a, b| a.1.cmp(&b.1)), a stable sort
RECURSIVE SortByKey(_)
SortByKey(s) ==
    IF s = <<>> THEN <<>>
    ELSE StableInsert(SortByKey(SubSeq(s, 1, Len(s) - 1)), s[Len(s)])

Reference ==
    LET IsUnsigned(pr) == pr[2] >= 0
        IsSigned(pr) == pr[2] < 0
        unsigned == SortByKey(SelectSeq(orders, IsUnsigned))
        signed == SortByKey(Reverse(SelectSeq(orders, IsSigned)))
    IN  signed \o unsigned

\* C6: after inserting any sequence of (item, key) pairs into an empty
\* collection, the items stand in the reference order: the pairs with a
\* negative key, reversed and stably sorted by key, then the pairs with a
\* non-negative key, stably sorted by key.
C6_InsertionIsReferenceOrder ==
    items = [i \in 1 .. Len(Reference) |-> Reference[i][1]]

\* Three inserts, one with key 0 and then two with the same negative key,
\* have been made: the final order is the reverse of the insertion order.
C6_Witness ==
    /\ call.name = "insert"
    /\ hist = <<0, -1, -1>>
    /\ items = <<3, 2, 1>>

\* C7: in a collection built by insert and push, first_right_of(key)
\* returns the smallest index i with keys[i] > key, or len() when there is
\* none, and leaves the collection as it was; first_right_of(isize::MAX) is
\* len().
C7_FirstRightOf ==
    call.name = "first_right_of" =>
       LET right == {i \in Indices(order) : At(order, i) > call.key}
       IN  /\ call.ret = IF right = {} THEN Len(order) ELSE SetMin(right)
           /\ call.key = ISIZE_MAX => call.ret = Len(items)
           /\ items = old_items
           /\ order = old_order

\* first_right_of(0) has just been answered on a run of two keys 0 followed
\* by a pushed item, the binary search having hit the first of the run.
C7_Witness ==
    /\ call.name = "first_right_of"
    /\ call.key = 0
    /\ call.exact.ok
    /\ call.exact.idx = 0
    /\ call.ret = 2
    /\ order = <<0, 0, ISIZE_MAX>>
    /\ hist[items[3]] = ISIZE_MAX

\* C8: in a collection built by insert, first_positive() returns the first
\* index whose key is >= 0, which is the number of entries with a negative
\* key, and len() when every key is negative; a key 0 counts as positive.
C8_FirstPositive ==
    call.name = "first_positive" =>
       /\ call.ret = Cardinality({i \in Indices(order) : At(order, i) < 0})
       /\ \A i \in Indices(order) : i < call.ret <=> At(order, i) < 0
       /\ (\A i \in Indices(order) : At(order, i) < 0) => call.ret = Len(items)

\* first_positive() has just returned the index of a key 0 that stands
\* behind two negative keys.
C8_Witness ==
    /\ call.name = "first_positive"
    /\ call.ret = 2
    /\ order = <<-1, -1, 0>>

\* C9: insert(key, value) returns an index p such that right after the call
\* values[p] is the inserted value and keys[p] is key, the length has grown
\* by one, and every pair that was there before is still there, in the same
\* relative order (those at an index >= p moved right by one).
C9_InsertFrame ==
    call.name = "insert" =>
       /\ call.ret \in Indices(items)
       /\ call.ret \in Indices(order)
       /\ At(items, call.ret) = call.item
       /\ At(order, call.ret) = call.key
       /\ Len(items) = Len(old_items) + 1
       /\ Len(order) = Len(old_order) + 1
       /\ \A i \in Indices(old_items) :
             LET j == IF i < call.ret THEN i ELSE i + 1
             IN  /\ At(items, j) = At(old_items, i)
                 /\ At(order, j) = At(old_order, i)

\* An insert has just landed between two pairs, which kept their order.
C9_Witness ==
    /\ call.name = "insert"
    /\ call.ret = 1
    /\ Len(items) = 3
    /\ Len(old_items) = 2
    /\ items[1] = old_items[1]
    /\ items[3] = old_items[2]

\* C10: after retain(f) on a collection reached without swap, the pairs
\* left are exactly the pairs from before the call whose item satisfies f,
\* in the order they had: every item left has the key it had, and no key of
\* a dropped item is left.
C10_RetainKeepsPairs ==
    call.name = "retain" =>
       LET Kept(pr) == pr[1] \in call.keep
       IN  /\ Len(items) = Len(order)
           /\ Pairs(items, order)
                 = SelectSeq(Pairs(old_items, old_order), Kept)
           /\ \A i \in DOMAIN items : order[i] = hist[items[i]]

\* A retain has just dropped the first and the last of three pairs with
\* three different keys and kept the middle one.
C10_Witness ==
    /\ call.name = "retain"
    /\ Len(old_items) = 3
    /\ old_order[1] < old_order[2]
    /\ old_order[2] < old_order[3]
    /\ items = <<old_items[2]>>
    /\ order = <<old_order[2]>>

\* How often the pair pr stands in two parallel vectors.
PairCount(its, ord, pr) ==
    Cardinality({i \in 1 .. Len(its) : <<its[i], ord[i]>> = pr})

\* C11: without swap, remove(i) returns the pair (values[i], keys[i]), and
\* inserting that pair again gives a collection with the same keys and the
\* same multiset of pairs as before the remove; the item can stand at
\* another index than i only inside the run of entries that have its key.
C11_RemoveThenInsert ==
    /\ (call.name = "remove" /\ call.index < Len(old_items)) =>
          /\ ~call.panicked
          /\ call.ret.item = At(old_items, call.index)
          /\ call.ret.key = At(old_order, call.index)
    /\ call.name = "reinsert" =>
          /\ order = old_order
          /\ Len(items) = Len(old_items)
          /\ \A i \in 1 .. Len(items) :
                PairCount(items, order, <<items[i], order[i]>>)
                   = PairCount(old_items, old_order, <<items[i], order[i]>>)
          /\ At(items, call.ret) = call.item
          /\ At(order, call.ret) = call.key
          /\ \A i \in Indices(items) :
                At(order, i) # call.key => At(items, i) = At(old_items, i)

\* The first entry of a run of three entries of key 0 has been removed and
\* inserted again: it now stands at the end of the run.
C11_Witness ==
    /\ call.name = "reinsert"
    /\ call.index = 0
    /\ call.ret = 2
    /\ old_order = <<0, 0, 0>>
    /\ old_items = <<1, 2, 3>>
    /\ items = <<2, 3, 1>>

\* C12: drain(s..e) with s <= e <= len removes exactly the indices s..e
\* from both vectors, yields the removed values (not the keys) in their
\* order, and leaves the other pairs as they were and in order, whether or
\* not the yielded values are consumed.
C12_DrainRemovesRange ==
    call.name = "drain" =>
       /\ Len(items) = Len(order)
       /\ call.ret = [i \in 1 .. (call.to - call.from) |->
                         At(old_items, call.from + i - 1)]
       /\ \E n \in 0 .. Len(call.ret) : call.consumed = SubSeq(call.ret, 1, n)
       /\ Len(items) = Len(old_items) - (call.to - call.from)
       /\ \A i \in Indices(items) :
             LET j == IF i < call.from THEN i ELSE i + (call.to - call.from)
             IN  /\ At(items, i) = At(old_items, j)
                 /\ At(order, i) = At(old_order, j)

\* The middle one of three pairs with different keys has been drained and
\* the Drain dropped without a value taken from it.
C12_Witness ==
    /\ call.name = "drain"
    /\ call.from = 1
    /\ call.to = 2
    /\ call.consumed = <<>>
    /\ Len(old_items) = 3
    /\ old_order[1] < old_order[2]
    /\ old_order[2] < old_order[3]
    /\ call.ret = <<old_items[2]>>
    /\ order = <<old_order[1], old_order[3]>>

\* C13: extract() returns all values in their order and leaves both
\* vectors empty (len() = 0), so that what follows is as on a collection
\* made by new(): the next push returns index 0.
C13_ExtractEmpties ==
    /\ call.name = "extract" =>
          /\ call.ret = old_items
          /\ items = <<>>
          /\ order = <<>>
          /\ Len(items) = 0
          /\ push(items, order, NewItem) = push(<<>>, <<>>, NewItem)
    /\ (call.name = "push" /\ old_items = <<>>) =>
          /\ call.ret = 0
          /\ items = <<call.item>>
          /\ order = <<ISIZE_MAX>>

\* extract() has just handed over two values that a swap had put out of the
\* order of their keys.
C13_Witness ==
    /\ call.name = "extract"
    /\ Len(call.ret) = 2
    /\ hist[call.ret[1]] > hist[call.ret[2]]
    /\ Len(old_order) = 2
    /\ Len(items) = 0

\* C14: push(value) appends the value at the last position with the key
\* isize::MAX, returns the new last index, leaves every earlier pair as it
\* was and keeps the keys non-decreasing; a pop() right after it returns
\* (value, isize::MAX) and gives back the contents from before the push.
C14_PushThenPop ==
    /\ call.name = "push" =>
          /\ items = Append(old_items, call.item)
          /\ order = Append(old_order, ISIZE_MAX)
          /\ call.ret = Len(items) - 1
          /\ Sorted(order)
    /\ call.name = "pop_pushed" =>
          /\ call.ret = [some |-> TRUE, item |-> call.pushed,
                         key |-> ISIZE_MAX]
          /\ items = old_items
          /\ order = old_order

\* A pop() has just taken back the value pushed behind two inserted pairs.
C14_Witness ==
    /\ call.name = "pop_pushed"
    /\ call.ret.some
    /\ call.ret.item = 3
    /\ Len(items) = 2
    /\ order[2] < ISIZE_MAX

C16_SwapMovesKeys ==
    call.name = "swap" =>
       /\ At(order, call.a) = At(old_order, call.b)
       /\ At(order, call.b) = At(old_order, call.a)

C18_RemoveOutOfBounds ==
    (call.name = "remove" /\ call.index >= Len(old_items)) =>
       /\ call.panicked
       /\ "ret" \notin DOMAIN call
       /\ items = old_items
       /\ order = old_order

\* remove(2) has just panicked on a collection of two pairs.
C18_Witness ==
    /\ call.name = "remove"
    /\ call.index = 2
    /\ call.panicked
    /\ Len(old_items) = 2
    /\ Len(items) = 2
    /\ Len(order) = 2

\* C19: when the key searched for occurs several times, the index insert
\* returns, the contents after insert and the result of first_right_of are
\* the same whichever index of the run the binary search returns: insert
\* goes to the end of the whole run for a key >= 0 and to its start for a
\* key < 0, first_right_of returns the end of the whole run.
C19_SearchChoiceIrrelevant ==
    /\ \A relative \in Keys :
          \A b1 \in binary_search(order, relative),
             b2 \in binary_search(order, relative) :
             /\ insert(items, order, relative, NewItem, b1)
                   = insert(items, order, relative, NewItem, b2)
             /\ first_right_of(order, relative, b1)
                   = first_right_of(order, relative, b2)
    /\ (call.name = "insert" /\ call.exact.ok) =>
          LET run == {i \in Indices(old_order) : At(old_order, i) = call.key}
          IN  call.ret = IF call.key >= 0 THEN SetMax(run) + 1
                         ELSE SetMin(run)
    /\ (call.name = "first_right_of" /\ call.exact.ok) =>
          LET run == {i \in Indices(order) : At(order, i) = call.key}
          IN  call.ret = SetMax(run) + 1

\* insert(0, v) has just put v at the end of a run of two keys 0 although
\* the binary search hit the first entry of the run.
C19_Witness ==
    /\ call.name = "insert"
    /\ call.key = 0
    /\ call.exact.ok
    /\ call.exact.idx = 0
    /\ old_order = <<0, 0>>
    /\ Cardinality(binary_search(old_order, 0)) = 2
    /\ call.ret = 2
    /\ order = <<0, 0, 0>>

====
